---- MODULE Spec2Model ----
(***************************************************************************)
(* Model of ResNet/pytorch/data_load.py: the ImageNet2012Dataset adapter   *)
(* (label index built from a sidecar file, __len__, __getitem__) and the   *)
(* sample transforms Rescale, RandomHorizontalFlip, RandomCrop,            *)
(* CenterCrop, ToTensor, Normalize and ColorJitter.                        *)
(*                                                                         *)
(* Strings are sequences of one-character strings.  Arrays (numpy          *)
(* ndarrays and torch tensors) are records with a shape and a function     *)
(* from zero-based index tuples to pixel values.                           *)
(***************************************************************************)
EXTENDS Integers, Sequences, FiniteSets, TLC

VARIABLES
    labels_file,   \* text of the sidecar file handed to __init__
    root_dir,      \* directory handed to __init__: a set of entry names
    constructed,   \* FALSE before __init__ has run, TRUE after
    images,        \* self.images
    transform,     \* self.transform
    label_to_idx,  \* self.label_to_idx
    idx_to_name,   \* self.idx_to_name
    pc,            \* per worker: "idle", "loaded" or "done"
    arg,           \* per worker: the index of the call in progress
    sample,        \* per worker: outcome of lines 50-64 of __getitem__
    ret,           \* per worker: what the call returned or raised
    hist           \* transform bench: the samples and operators applied

vars == <<labels_file, root_dir, constructed, images, transform,
          label_to_idx, idx_to_name, pc, arg, sample, ret, hist>>

dataset == <<labels_file, root_dir, constructed, images, transform,
             label_to_idx, idx_to_name>>

workers == <<pc, arg, sample, ret>>

----------------------------------------------------------------------------
(* Bounds *)

MaxFileLen == 6   \* characters in a sidecar file (label-index runs)
MaxChain == 2     \* operators in the transform chain of the dataset
MaxSteps == 2     \* operators applied in a row on the transform bench
MaxDim == 3       \* largest image edge and crop/rescale size on the bench
Denom == 2        \* random.random() and p are multiples of 1/Denom

None == "None"    \* Python's None, where a worker holds no value

\* cv2.imread's None
NoImage == [kind |-> "None"]

\* transform=None and transform=Compose(transforms)
NoTransform == [is_none |-> TRUE, transforms |-> <<>>]
Compose(transforms) == [is_none |-> FALSE, transforms |-> transforms]

\* the value of arg while no __getitem__ call is in progress
NoIndex == -1

----------------------------------------------------------------------------
(* Python string primitives used by __init__ and __getitem__ *)

NL == "\n"
Whitespace == {NL, " "}

RECURSIVE lstrip(_)
lstrip(s) ==
    IF s # <<>> /\ Head(s) \in Whitespace THEN lstrip(Tail(s)) ELSE s

RECURSIVE rstrip(_)
rstrip(s) ==
    IF s # <<>> /\ s[Len(s)] \in Whitespace
    THEN rstrip(SubSeq(s, 1, Len(s) - 1))
    ELSE s

\* str.strip(): whitespace removed at both ends
strip(s) == rstrip(lstrip(s))

\* index of the first occurrence of sep in s, 0 if there is none
find(s, sep) ==
    IF \E i \in 1..Len(s) : s[i] = sep
    THEN CHOOSE i \in 1..Len(s) :
             s[i] = sep /\ \A j \in 1..(i - 1) : s[j] # sep
    ELSE 0

\* str.split(sep): always at least one part, empty parts are kept
RECURSIVE split(_, _)
split(s, sep) ==
    LET i == find(s, sep) IN
    IF i = 0 THEN <<s>>
    ELSE <<SubSeq(s, 1, i - 1)>> \o split(SubSeq(s, i + 1, Len(s)), sep)

joinSpaced(parts) ==
    IF parts = <<>> THEN <<>>
    ELSE LET RECURSIVE go(_)
             go(k) == IF k > Len(parts) THEN <<>>
                      ELSE <<" ">> \o parts[k] \o go(k + 1)
         IN parts[1] \o go(2)

\* "".join(parts)
RECURSIVE join(_)
join(parts) ==
    IF parts = <<>> THEN <<>> ELSE Head(parts) \o join(Tail(parts))

\* f.readline() on the unread rest of the file: the text up to and
\* including the next newline, or what is left; <<>> at end of file
readline(rest) ==
    LET i == find(rest, NL) IN
    IF i = 0 THEN rest ELSE SubSeq(rest, 1, i)

----------------------------------------------------------------------------
(* ImageNet2012Dataset.__init__, lines 31-44: the label index *)

setdefault(d, key, value) ==
    [k \in (DOMAIN d) \cup {key} |-> IF k \in DOMAIN d THEN d[k] ELSE value]

\* d[key] = value
setitem(d, key, value) ==
    [k \in (DOMAIN d) \cup {key} |-> IF k = key THEN value ELSE d[k]]

EmptyDict == [k \in {} |-> 0]

\* the while loop of lines 36-44, entered with the unread rest of the
\* file, the next idx and the two dictionaries built so far
RECURSIVE read_labels(_, _, _, _)
read_labels(rest, idx, l2i, i2n) ==
    LET line == readline(rest) IN
    IF line = <<>> THEN [label_to_idx |-> l2i, idx_to_name |-> i2n]
    ELSE LET parts == split(strip(line), " ")
             label == parts[1]
             name  == join(Tail(parts))
         IN read_labels(SubSeq(rest, Len(line) + 1, Len(rest)), idx + 1,
                        setitem(l2i, label, idx), setitem(i2n, idx, name))

----------------------------------------------------------------------------
(* Arrays: numpy ndarrays and torch tensors *)

\* the index tuples of an array of the given shape (2-D or 3-D)
Idx(shape) ==
    IF Len(shape) = 2
    THEN {<<i, j>> : i \in 0..(shape[1] - 1), j \in 0..(shape[2] - 1)}
    ELSE {<<i, j, k>> : i \in 0..(shape[1] - 1), j \in 0..(shape[2] - 1),
                        k \in 0..(shape[3] - 1)}

\* kind: "ndarray" or "tensor"; dtype: "uint8" or "float"; adj: the
\* photometric adjustments of the external libraries applied to the
\* pixel values in data, in order (kept symbolic)
Array(kind, dtype, shape, data, adj) ==
    [kind |-> kind, dtype |-> dtype, shape |-> shape, data |-> data,
     adj |-> adj]

Sample(image, annotation) == [image |-> image, annotation |-> annotation]

Ok(s) == [ok |-> TRUE, sample |-> s]
Raise(e) == [ok |-> FALSE, error |-> e]

\* the exceptions the calls below can raise
IndexError == Raise("IndexError")
KeyError == Raise("KeyError")
RuntimeError == Raise("RuntimeError")
TypeError == Raise("TypeError")
ValueError == Raise("ValueError")
cv2_error == Raise("cv2.error")

\* a slice bound as Python normalises it against a dimension of length n
clip(i, n) ==
    IF i < 0 THEN (IF i + n < 0 THEN 0 ELSE i + n)
    ELSE IF i > n THEN n ELSE i

\* image[r0:r1, c0:c1]
slice(a, r0, r1, c0, c1) ==
    LET lo_r == clip(r0, a.shape[1])
        hi_r == clip(r1, a.shape[1])
        lo_c == clip(c0, a.shape[2])
        hi_c == clip(c1, a.shape[2])
        nr == IF hi_r > lo_r THEN hi_r - lo_r ELSE 0
        nc == IF hi_c > lo_c THEN hi_c - lo_c ELSE 0
        shape == <<nr, nc>> \o Tail(Tail(a.shape))
    IN [a EXCEPT !.shape = shape,
                 !.data = [ix \in Idx(shape) |->
                     a.data[[ix EXCEPT ![1] = lo_r + ix[1],
                                       ![2] = lo_c + ix[2]]]]]

\* np.fliplr(image).copy(): axis 1 reversed, the result is an ndarray
fliplr(a) ==
    [a EXCEPT !.kind = "ndarray",
              !.data = [ix \in Idx(a.shape) |->
                  a.data[[ix EXCEPT ![2] = a.shape[2] - 1 - ix[2]]]]]

\* np.stack((image, ) * 3, axis=-1) of a 2-D array
stack3(a) ==
    LET shape == a.shape \o <<3>> IN
    [a EXCEPT !.kind = "ndarray", !.shape = shape,
              !.data = [ix \in Idx(shape) |-> a.data[<<ix[1], ix[2]>>]]]

\* image.transpose((2, 0, 1)): H x W x C to C x H x W
transpose201(a) ==
    LET shape == <<a.shape[3], a.shape[1], a.shape[2]>> IN
    [a EXCEPT !.shape = shape,
              !.data = [ix \in Idx(shape) |->
                  a.data[<<ix[2], ix[3], ix[1]>>]]]

\* np.transpose(pic.numpy(), (1, 2, 0)): C x H x W to H x W x C
transpose120(a) ==
    LET shape == <<a.shape[2], a.shape[3], a.shape[1]>> IN
    [a EXCEPT !.kind = "ndarray", !.shape = shape,
              !.data = [ix \in Idx(shape) |->
                  a.data[<<ix[3], ix[1], ix[2]>>]]]

\* cv2.cvtColor(image, cv2.COLOR_BGR2RGB): channel order reversed
cvtColor(a) ==
    [a EXCEPT !.data = [ix \in Idx(a.shape) |->
                  a.data[<<ix[1], ix[2], 2 - ix[3]>>]]]

\* cv2.resize(image, (new_w, new_h)).  The interpolation belongs to the
\* external library; pixel values are sampled at the nearest source
\* position.  A single-channel 3-D input comes back 2-D.
resize(a, new_w, new_h) ==
    LET h == a.shape[1]
        w == a.shape[2]
        flat == Len(a.shape) = 3 /\ a.shape[3] = 1
        shape == IF Len(a.shape) = 2 \/ flat THEN <<new_h, new_w>>
                 ELSE <<new_h, new_w, a.shape[3]>>
        src(ix) == LET r == (ix[1] * h) \div new_h
                       c == (ix[2] * w) \div new_w
                   IN IF Len(a.shape) = 2 THEN <<r, c>>
                      ELSE IF flat THEN <<r, c, 0>>
                      ELSE <<r, c, ix[3]>>
    IN IF a.kind # "ndarray" THEN TypeError
       ELSE IF new_w <= 0 \/ new_h <= 0 THEN cv2_error
       ELSE Ok([a EXCEPT !.shape = shape,
                         !.data = [ix \in Idx(shape) |-> a.data[src(ix)]]])

----------------------------------------------------------------------------
(* The transform operators.  An operator that draws random numbers is a   *)
(* set of outcomes, one for each value the draws can take.                 *)

\* output_size is [int |-> n] or [tuple |-> <<h, w>>]
isinstance_int(output_size) == "int" \in DOMAIN output_size

int_div_round(x, y) == (2 * x + y) \div (2 * y)

\* int(x / y) for x >= 0, y > 0
int_div(x, y) == x \div y

\* Rescale.__call__
Rescale_call(output_size, s) ==
    LET image == s.image
        h == image.shape[1]
        w == image.shape[2]
        new_h == IF isinstance_int(output_size)
                 THEN (IF h > w THEN int_div(output_size.int * h, w)
                       ELSE output_size.int)
                 ELSE output_size.tuple[1]
        new_w == IF isinstance_int(output_size)
                 THEN (IF h > w THEN output_size.int
                       ELSE int_div(output_size.int * w, h))
                 ELSE output_size.tuple[2]
        img == resize(image, new_w, new_h)
    IN IF img.ok THEN Ok(Sample(img.sample, s.annotation)) ELSE img

\* random.random(): a multiple of 1/Denom in [0, 1)
random_random == 0..(Denom - 1)

flip_test_le(u, p) == u <= p

\* random.random() < self.p, with p in units of 1/Denom
flip_test(u, p) == u < p

\* RandomHorizontalFlip.__call__
RandomHorizontalFlip_call(p, s) ==
    {IF flip_test(u, p)
     THEN Ok(Sample(fliplr(s.image), s.annotation))
     ELSE Ok(Sample(s.image, s.annotation)) : u \in random_random}

\* RandomCrop.__init__ and CenterCrop.__init__: self.output_size
crop_size(output_size) ==
    IF isinstance_int(output_size)
    THEN <<output_size.int, output_size.int>>
    ELSE output_size.tuple

\* np.random.randint(low, high): low <= x < high; raises ValueError
\* when there is no such x (the empty set here)
randint(low, high) == low..(high - 1)

\* RandomCrop.__call__
RandomCrop_call(output_size, s) ==
    LET image == s.image
        h == image.shape[1]
        w == image.shape[2]
        new_h == output_size[1]
        new_w == output_size[2]
        tops == randint(0, h - new_h)
        lefts == randint(0, w - new_w)
    IN IF tops = {} \/ lefts = {} THEN {ValueError}
       ELSE {Ok(Sample(slice(image, top, top + new_h, left, left + new_w),
                       s.annotation)) : top \in tops, left \in lefts}

\* CenterCrop.__call__
CenterCrop_call(output_size, s) ==
    LET image == s.image
        h == image.shape[1]
        w == image.shape[2]
        new_h == output_size[1]
        new_w == output_size[2]
        top == (h - new_h) \div 2
        left == (w - new_w) \div 2
    IN Ok(Sample(slice(image, top, top + new_h, left, left + new_w),
                 s.annotation))

ToTensor_call_relabel(s) ==
    LET image == IF Len(s.image.shape) = 2 THEN stack3(s.image) ELSE s.image
    IN IF image.kind = "tensor" THEN TypeError
       ELSE Ok(Sample([transpose201(image) EXCEPT !.kind = "tensor",
                                                  !.dtype = "float"],
                      s.annotation + 1))

\* ToTensor.__call__
ToTensor_call(s) ==
    LET image == IF Len(s.image.shape) = 2 THEN stack3(s.image) ELSE s.image
    IN IF image.kind = "tensor" THEN TypeError
       ELSE Ok(Sample([transpose201(image) EXCEPT !.kind = "tensor",
                                                  !.dtype = "float"],
                      s.annotation))

\* Normalize.__call__.  F.normalize wants a tensor; its arithmetic is
\* recorded in adj.  With a channel count other than len(mean) the
\* library raises or not depending on its version.
Normalize_call(mean, std, s) ==
    LET image == s.image
        out == Ok(Sample([image EXCEPT
                     !.adj = Append(@, <<"normalize", mean, std>>)],
                     s.annotation))
    IN IF image.kind # "tensor" THEN {TypeError}
       ELSE IF image.shape[1] # Len(mean) THEN {RuntimeError, out}
       ELSE {out}

\* random.uniform(lo, hi), in units of 1/Denom
random_uniform(lo, hi) == lo..hi

max(a, b) == IF a > b THEN a ELSE b

\* random.shuffle(l): every order of l
shuffle(l) ==
    {[i \in 1..Len(l) |-> l[f[i]]] : f \in Permutations(1..Len(l))}

\* the lists of adjustments one coefficient can contribute
adjustments(name, c, lo, hi) ==
    IF c > 0 THEN {<<<<name, f>>>> : f \in random_uniform(lo, hi)}
    ELSE {<<>>}

\* ColorJitter.get_params: coefficients in units of 1/Denom
get_params(brightness, contrast, saturation, hue) ==
    UNION {shuffle(b \o c \o s \o h) :
        b \in adjustments("brightness", brightness,
                          max(0, Denom - brightness), Denom + brightness),
        c \in adjustments("contrast", contrast,
                          max(0, Denom - contrast), Denom + contrast),
        s \in adjustments("saturation", saturation,
                          max(0, Denom - saturation), Denom + saturation),
        h \in adjustments("hue", hue, 0 - hue, hue)}

\* conversion of a number to uint8; outside 0..255 the result depends on
\* the platform: it wraps or it saturates
ByteModes == {"wrap", "saturate"}

byte(v, mode) ==
    IF v >= 0 /\ v <= 255 THEN v
    ELSE IF mode = "wrap" THEN v % 256
    ELSE IF v < 0 THEN 0 ELSE 255

\* pic.mul(255).byte()
mul_byte(pic, mode) ==
    IF pic.adj = <<>>
    THEN [pic EXCEPT !.dtype = "uint8",
              !.data = [ix \in Idx(pic.shape) |->
                            byte(pic.data[ix] * 255, mode)]]
    ELSE [pic EXCEPT !.dtype = "uint8",
              !.adj = Append(@, <<"mul_byte", 255, mode>>)]

\* F.to_pil_image(image, mode='RGB')
to_pil_image(pic) ==
    LET check(npimg) ==
            IF Len(npimg.shape) = 2 \/ npimg.shape[3] # 3
            THEN ValueError
            ELSE IF npimg.dtype # "uint8" THEN TypeError
            ELSE Ok([npimg EXCEPT !.kind = "pil"])
    IN IF pic.kind = "tensor"
       THEN {check(transpose120(IF pic.dtype = "float"
                                THEN mul_byte(pic, mode) ELSE pic)) :
                 mode \in ByteModes}
       ELSE {check(pic)}

\* np.asarray(image) of a PIL image
asarray(image) == [image EXCEPT !.kind = "ndarray"]

\* ColorJitter.__call__
ColorJitter_call(brightness, contrast, saturation, hue, s) ==
    {IF pil.ok
     THEN Ok(Sample(asarray([pil.sample EXCEPT !.adj = @ \o t]),
                    s.annotation))
     ELSE pil :
        pil \in to_pil_image(s.image),
        t \in get_params(brightness, contrast, saturation, hue)}

\* operator objects
Rescale(output_size) == [type |-> "Rescale", output_size |-> output_size]
RandomHorizontalFlip(p) == [type |-> "RandomHorizontalFlip", p |-> p]
RandomCrop(output_size) ==
    [type |-> "RandomCrop", output_size |-> crop_size(output_size)]
CenterCrop(output_size) ==
    [type |-> "CenterCrop", output_size |-> crop_size(output_size)]
ToTensor == [type |-> "ToTensor"]
Normalize(mean, std) == [type |-> "Normalize", mean |-> mean, std |-> std]
ColorJitter(b, c, s, h) ==
    [type |-> "ColorJitter", brightness |-> b, contrast |-> c,
     saturation |-> s, hue |-> h]

\* op(sample): the outcomes of one operator on one sample
call(op, s) ==
    CASE op.type = "Rescale" -> {Rescale_call(op.output_size, s)}
      [] op.type = "RandomHorizontalFlip" ->
             RandomHorizontalFlip_call(op.p, s)
      [] op.type = "RandomCrop" -> RandomCrop_call(op.output_size, s)
      [] op.type = "CenterCrop" -> {CenterCrop_call(op.output_size, s)}
      [] op.type = "ToTensor" -> {ToTensor_call(s)}
      [] op.type = "Normalize" -> Normalize_call(op.mean, op.std, s)
      [] op.type = "ColorJitter" ->
             ColorJitter_call(op.brightness, op.contrast, op.saturation,
                              op.hue, s)

\* Compose(transforms)(sample): the operators applied in order; the
\* first one to raise ends the call
RECURSIVE Compose_call(_, _)
Compose_call(transforms, s) ==
    IF transforms = <<>> THEN {Ok(s)}
    ELSE UNION {IF o.ok THEN Compose_call(Tail(transforms), o.sample)
                ELSE {o} : o \in call(Head(transforms), s)}

----------------------------------------------------------------------------
(* The file system: directory entries and what cv2.imread decodes *)

\* the H x W x 3 uint8 array, in BGR order, that cv2.imread returns for
\* an image file of h rows and w columns; each position holds its own value
decoded(h, w) ==
    Array("ndarray", "uint8", <<h, w, 3>>,
          [ix \in Idx(<<h, w, 3>>) |-> (ix[1] * w + ix[2]) * 3 + ix[3]],
          <<>>)

\* a directory entry; shape = <<>>: the bytes are not an image
Entry(name, isfile, shape) ==
    [name |-> name, isfile |-> isfile, shape |-> shape]

Directories ==
    { {Entry(<<"a", "_", "1">>, TRUE, <<2, 2>>),
       Entry(<<"b", "_", "1", "_", "2">>, TRUE, <<1, 2>>)},
      {Entry(<<"a">>, TRUE, <<2, 1>>),
       Entry(<<"z", "_", "1">>, TRUE, <<1, 1>>),
       Entry(<<"b", "_", "d">>, FALSE, <<>>)},
      {Entry(<<"a", "_", "c">>, TRUE, <<>>),
       Entry(<<"a", "b">>, TRUE, <<1, 1>>)} }

\* sidecar files of the dataset runs: "a x\nb y z\n" and "b\n\na t"
LabelFiles ==
    { <<"a", " ", "x", NL, "b", " ", "y", " ", "z", NL>>,
      <<"b", NL, NL, "a", " ", "t">> }

\* listdir(root_dir) filtered by isfile: the names of the regular files,
\* in whatever order the file system lists them
listings(dir) ==
    LET files == {e.name : e \in {x \in dir : x.isfile}}
        n == Cardinality(files)
    IN {l \in [1..n -> files] : \A i, j \in 1..n : i # j => l[i] # l[j]}

\* cv2.imread(join(root_dir, name)): None when the file does not decode
imread(dir, name) ==
    LET e == CHOOSE x \in dir : x.name = name IN
    IF e.shape = <<>> THEN NoImage ELSE decoded(e.shape[1], e.shape[2])

----------------------------------------------------------------------------
(* ImageNet2012Dataset *)

\* __init__, lines 26-44
Construct ==
    /\ ~constructed
    /\ constructed' = TRUE
    /\ images' \in listings(root_dir)
    /\ LET index == read_labels(labels_file, 0, EmptyDict, EmptyDict) IN
         /\ label_to_idx' = index.label_to_idx
         /\ idx_to_name' = index.idx_to_name
    /\ UNCHANGED <<labels_file, root_dir, transform, workers, hist>>

getitem_load_default(idx) ==
    IF idx >= Len(images) THEN IndexError
    ELSE LET image_name == images[idx + 1]
             image == imread(root_dir, image_name)
             parts == split(image_name, "_")
         IN IF image = NoImage THEN cv2_error
            ELSE IF parts[1] \notin DOMAIN label_to_idx
                 THEN Ok(Sample(cvtColor(image), 0))
            ELSE Ok(Sample(cvtColor(image), label_to_idx[parts[1]]))

\* __getitem__, lines 50-64: the sample before the transform, or the
\* error raised on the way.  idx is zero-based.
getitem_load(idx) ==
    IF idx >= Len(images) THEN IndexError
    ELSE LET image_name == images[idx + 1]
             image == imread(root_dir, image_name)
             parts == split(image_name, "_")
         IN IF image = NoImage THEN cv2_error
            ELSE IF parts[1] \notin DOMAIN label_to_idx
                 THEN KeyError
            ELSE Ok(Sample(cvtColor(image), label_to_idx[parts[1]]))

\* what __getitem__ and __len__ do to the dataset object: nothing
readonly_pop ==
    /\ images' = IF images = <<>> THEN images ELSE Tail(images)
    /\ UNCHANGED <<labels_file, root_dir, constructed, transform,
                   label_to_idx, idx_to_name>>

readonly == UNCHANGED dataset

\* a worker enters __getitem__(idx) and runs lines 50-64
GetLoad(w, idx) ==
    /\ constructed
    /\ pc[w] = "idle"
    /\ pc' = [pc EXCEPT ![w] = "loaded"]
    /\ arg' = [arg EXCEPT ![w] = idx]
    /\ sample' = [sample EXCEPT ![w] = getitem_load(idx)]
    /\ readonly
    /\ UNCHANGED <<ret, hist>>

\* lines 66-69: the transform, if any, and the return
GetTransform(w) ==
    /\ pc[w] = "loaded"
    /\ pc' = [pc EXCEPT ![w] = "done"]
    /\ IF ~sample[w].ok \/ transform.is_none
       THEN ret' = [ret EXCEPT ![w] = sample[w]]
       ELSE \E o \in Compose_call(transform.transforms, sample[w].sample) :
                ret' = [ret EXCEPT ![w] = o]
    /\ readonly
    /\ UNCHANGED <<arg, sample, hist>>

\* __len__
LenCall(w) ==
    /\ constructed
    /\ pc[w] = "idle"
    /\ pc' = [pc EXCEPT ![w] = "done"]
    /\ arg' = [arg EXCEPT ![w] = NoIndex]
    /\ ret' = [ret EXCEPT ![w] = [ok |-> TRUE, len |-> Len(images)]]
    /\ readonly
    /\ UNCHANGED <<sample, hist>>

\* the loader takes the result; the worker is free for the next call
Return(w) ==
    /\ pc[w] = "done"
    /\ pc' = [pc EXCEPT ![w] = "idle"]
    /\ arg' = [arg EXCEPT ![w] = NoIndex]
    /\ sample' = [sample EXCEPT ![w] = None]
    /\ ret' = [ret EXCEPT ![w] = None]
    /\ UNCHANGED <<dataset, hist>>

\* the worker processes of the external loader
Workers == {"w1", "w2"}

\* one instance of each operator, for the chains of the dataset runs
ChainOps ==
    {Rescale([int |-> 2]), RandomHorizontalFlip(1), RandomCrop([int |-> 1]),
     CenterCrop([int |-> 1]), ToTensor, Normalize(<<1, 1, 1>>, <<2, 2, 2>>),
     ColorJitter(0, 0, 0, 0)}

\* Compose lists of at most MaxChain operators
Chains == UNION {[1..n -> ChainOps] : n \in 0..MaxChain}

IdleWorkers ==
    /\ pc = [w \in Workers |-> "idle"]
    /\ arg = [w \in Workers |-> NoIndex]
    /\ sample = [w \in Workers |-> None]
    /\ ret = [w \in Workers |-> None]

NotConstructed ==
    /\ constructed = FALSE
    /\ images = <<>>
    /\ label_to_idx = EmptyDict
    /\ idx_to_name = EmptyDict

Init ==
    /\ labels_file \in LabelFiles
    /\ root_dir \in Directories
    /\ transform \in {NoTransform} \cup {Compose(c) : c \in Chains}
    /\ NotConstructed
    /\ IdleWorkers
    /\ hist = <<>>

Next ==
    \/ Construct
    \/ \E w \in Workers : \E idx \in 0..Len(images) : GetLoad(w, idx)
    \/ \E w \in Workers : GetTransform(w)
    \/ \E w \in Workers : LenCall(w)
    \/ \E w \in Workers : Return(w)

Spec == Init /\ [][Next]_vars

----------------------------------------------------------------------------
(* Label-index runs: __init__ on every sidecar text of at most MaxFileLen *)
(* characters                                                              *)

Alphabet == {"a", "b", " ", NL}

Texts == UNION {[1..n -> Alphabet] : n \in 0..MaxFileLen}

InitIndex ==
    /\ labels_file \in Texts
    /\ root_dir \in Directories
    /\ transform = NoTransform
    /\ NotConstructed
    /\ IdleWorkers
    /\ hist = <<>>

NextIndex == Construct

SpecIndex == InitIndex /\ [][NextIndex]_vars

----------------------------------------------------------------------------
(* Transform bench: operators applied one after the other to a sample.    *)
(* hist[1] holds the input sample; hist[k+1] the k-th operator applied     *)
(* and its outcome on the sample of hist[k].                               *)

\* a grayscale H x W uint8 array without a channel dimension
gray(h, w) ==
    Array("ndarray", "uint8", <<h, w>>,
          [ix \in Idx(<<h, w>>) |-> ix[1] * w + ix[2]], <<>>)

BenchSamples ==
    {Sample(decoded(h, w), 1) : h \in 1..MaxDim, w \in 1..MaxDim}
    \cup {Sample(gray(h, w), 1) : h \in 1..MaxDim, w \in 1..MaxDim}

\* sizes handed to Rescale, RandomCrop and CenterCrop: the scalars
\* 1..MaxDim and the pair (1, 2)
BenchSizes == 1..(MaxDim + 1)
BenchSize(i) == IF i <= MaxDim THEN [int |-> i] ELSE [tuple |-> <<1, 2>>]

\* coefficients handed to ColorJitter, in units of 1/Denom
BenchJitters == << <<0, 0, 0, 0>>, <<1, 0, 0, 0>>, <<0, 1, 0, 1>> >>

\* the Normalize instance of the bench
BenchNormalize == Normalize(<<1, 1, 1>>, <<2, 2, 2>>)

Input == [type |-> "input"]

Last == hist[Len(hist)]

\* the operator instances constructed for the bench
BenchOps ==
    [i \in BenchSizes |-> Rescale(BenchSize(i))]
    \o [p \in 1..(Denom + 1) |-> RandomHorizontalFlip(p - 1)]
    \o [i \in BenchSizes |-> RandomCrop(BenchSize(i))]
    \o [i \in BenchSizes |-> CenterCrop(BenchSize(i))]
    \o <<ToTensor, BenchNormalize>>
    \o [i \in 1..Len(BenchJitters) |->
           ColorJitter(BenchJitters[i][1], BenchJitters[i][2],
                       BenchJitters[i][3], BenchJitters[i][4])]

\* op(sample) for the i-th operator instance, on the latest sample
Apply(i) ==
    LET op == transform.transforms[i] IN
    /\ Len(hist) <= MaxSteps
    /\ Last.out.ok
    /\ \E o \in call(op, Last.out.sample) :
           hist' = Append(hist, [op |-> op, out |-> o])
    /\ UNCHANGED <<dataset, workers>>

ApplyType(type) ==
    \E i \in 1..Len(BenchOps) :
        transform.transforms[i].type = type /\ Apply(i)

ApplyRescale == ApplyType("Rescale")
ApplyRandomHorizontalFlip == ApplyType("RandomHorizontalFlip")
ApplyRandomCrop == ApplyType("RandomCrop")
ApplyCenterCrop == ApplyType("CenterCrop")
ApplyToTensor == ApplyType("ToTensor")
ApplyNormalize == ApplyType("Normalize")
ApplyColorJitter == ApplyType("ColorJitter")

InitT ==
    /\ labels_file = <<>>
    /\ root_dir = {}
    /\ transform = Compose(BenchOps)
    /\ NotConstructed
    /\ IdleWorkers
    /\ \E s \in BenchSamples : hist = <<[op |-> Input, out |-> Ok(s)]>>

NextT ==
    \/ ApplyRescale
    \/ ApplyRandomHorizontalFlip
    \/ ApplyRandomCrop
    \/ ApplyCenterCrop
    \/ ApplyToTensor
    \/ ApplyNormalize
    \/ ApplyColorJitter

SpecT == InitT /\ [][NextT]_vars

----------------------------------------------------------------------------
(* Vocabulary of the properties, stated on the file text and the file     *)
(* names themselves                                                        *)

\* positions that end a line: every newline, and the end of the text when
\* the last line has no newline
LineEnds(text) ==
    {i \in 1..Len(text) : text[i] = NL}
    \cup (IF text # <<>> /\ text[Len(text)] # NL THEN {Len(text) + 1}
          ELSE {})

NumLines(text) == Cardinality(LineEnds(text))

\* line k of the text (1-indexed), without its newline
LineAt(text, k) ==
    LET ends == LineEnds(text)
        e == CHOOSE x \in ends : Cardinality({y \in ends : y <= x}) = k
        before == {y \in ends : y < e}
        b == IF before = {} THEN 0
             ELSE CHOOSE y \in before : \A z \in before : z <= y
    IN SubSeq(text, b + 1, e - 1)

IsSpace(c) == c = " "
NotSpace(c) == c # " "

\* where the first token of a line starts and ends (0 without a token)
FirstTokenStart(line) ==
    IF \E i \in 1..Len(line) : NotSpace(line[i])
    THEN CHOOSE i \in 1..Len(line) :
             NotSpace(line[i]) /\ \A j \in 1..(i - 1) : IsSpace(line[j])
    ELSE 0

FirstTokenEnd(line) ==
    LET st == FirstTokenStart(line) IN
    IF st = 0 THEN 0
    ELSE CHOOSE e \in st..Len(line) :
             /\ \A j \in st..e : NotSpace(line[j])
             /\ (e = Len(line) \/ IsSpace(line[e + 1]))

\* the label prefix of a line: its first token, empty on a blank line
PrefixOf(line) ==
    IF FirstTokenStart(line) = 0 THEN <<>>
    ELSE SubSeq(line, FirstTokenStart(line), FirstTokenEnd(line))

\* the tokens after the first, concatenated without a separator
NameOf(line) ==
    SelectSeq(SubSeq(line, FirstTokenEnd(line) + 1, Len(line)), NotSpace)

LineNumbers == 1..NumLines(labels_file)

DistinctLines ==
    \A i, j \in LineNumbers :
        i # j => LineAt(labels_file, i) # LineAt(labels_file, j)

DistinctPrefixes ==
    \A i, j \in LineNumbers :
        i # j => PrefixOf(LineAt(labels_file, i))
                     # PrefixOf(LineAt(labels_file, j))

\* the label index is the dense, file-ordered index of the lines
DenseIndex ==
    /\ Cardinality(DOMAIN label_to_idx) = NumLines(labels_file)
    /\ {label_to_idx[k] : k \in DOMAIN label_to_idx}
           = 0..(NumLines(labels_file) - 1)
    /\ \A k1, k2 \in DOMAIN label_to_idx :
           k1 # k2 => label_to_idx[k1] # label_to_idx[k2]
    /\ \A i \in LineNumbers :
           /\ PrefixOf(LineAt(labels_file, i)) \in DOMAIN label_to_idx
           /\ label_to_idx[PrefixOf(LineAt(labels_file, i))] = i - 1
    /\ DOMAIN idx_to_name = 0..(NumLines(labels_file) - 1)
    /\ \A i \in LineNumbers :
           idx_to_name[i - 1] = NameOf(LineAt(labels_file, i))

\* C1 as stated: a sidecar file of N distinct lines yields N entries in
\* label_to_idx, ids exactly 0..N-1 without gaps or sharing, assigned in
\* file order, and idx_to_name[i] is the name on line i+1.
C1_DistinctLinesDense == (constructed /\ DistinctLines) => DenseIndex

\* C1 amended: the same for a sidecar file whose lines have pairwise
\* distinct label prefixes.
C1_DistinctPrefixesDense == (constructed /\ DistinctPrefixes) => DenseIndex

C1_Witness ==
    /\ constructed
    /\ DistinctPrefixes
    /\ NumLines(labels_file) >= 2
    /\ \E i \in DOMAIN idx_to_name : Len(idx_to_name[i]) >= 2

\* some label prefix stands on more than one line
RepeatedPrefix == ~DistinctPrefixes

\* C8 as stated: construction does not complete on a sidecar file in
\* which a label prefix occurs on more than one line.
C8_DuplicateRejected == constructed => ~RepeatedPrefix

\* C8 amended: construction completes also when a prefix repeats; the
\* prefix is then mapped to the id of the last line that carries it, and
\* idx_to_name still has the name of every line.
C8_LastLineWins ==
    constructed =>
        /\ \A i \in LineNumbers :
               LET p == PrefixOf(LineAt(labels_file, i))
                   last == CHOOSE j \in LineNumbers :
                       /\ PrefixOf(LineAt(labels_file, j)) = p
                       /\ \A m \in LineNumbers :
                              PrefixOf(LineAt(labels_file, m)) = p => m <= j
               IN p \in DOMAIN label_to_idx /\ label_to_idx[p] = last - 1
        /\ DOMAIN label_to_idx
               = {PrefixOf(LineAt(labels_file, i)) : i \in LineNumbers}
        /\ \A i \in LineNumbers :
               /\ (i - 1) \in DOMAIN idx_to_name
               /\ idx_to_name[i - 1] = NameOf(LineAt(labels_file, i))

C8_Witness ==
    /\ constructed
    /\ RepeatedPrefix
    /\ \E i, j \in LineNumbers :
           /\ i < j
           /\ PrefixOf(LineAt(labels_file, i))
                  = PrefixOf(LineAt(labels_file, j))
           /\ NameOf(LineAt(labels_file, i)) # NameOf(LineAt(labels_file, j))

----------------------------------------------------------------------------
(* Properties of __getitem__ and __len__ *)

HasUnderscore(name) == \E i \in 1..Len(name) : name[i] = "_"

\* the substring of a file name before its first underscore
BeforeUnderscore(name) ==
    LET i == CHOOSE x \in 1..Len(name) :
                 name[x] = "_" /\ \A y \in 1..(x - 1) : name[y] # "_"
    IN SubSeq(name, 1, i - 1)

\* the workers whose __getitem__ call on a file of the listing has run
\* its label lookup
Loaded ==
    {w \in Workers : (pc[w] = "loaded" \/ pc[w] = "done")
                     /\ arg[w] \in 0..(Len(images) - 1)}

FileName(w) == images[arg[w] + 1]

Decodes(w) ==
    \E e \in root_dir : e.name = FileName(w) /\ e.shape # <<>>

LookupKey(name) ==
    IF HasUnderscore(name) THEN BeforeUnderscore(name) ELSE name

LabelOutcome(w) ==
    IF sample[w].ok THEN <<"label", sample[w].sample.annotation>>
    ELSE <<"raise", sample[w].error>>

SameAnswers ==
    /\ \A w \in Workers :
           (pc[w] = "done" /\ arg[w] = NoIndex) => ret[w].len = Len(images)
    /\ \A w1, w2 \in Workers :
           (pc[w1] # "idle" /\ pc[w2] # "idle" /\ arg[w1] # NoIndex
            /\ arg[w1] = arg[w2]) => LabelOutcome(w1) = LabelOutcome(w2)

\* C3: once constructed, no step of any get or length call, in any
\* interleaving and whether it fails or not, changes the file listing,
\* label_to_idx or idx_to_name; every length call returns the size of the
\* listing and calls of get on one index have the same label outcome.
C3_ReadOnly ==
    /\ [][constructed =>
             UNCHANGED <<images, label_to_idx, idx_to_name>>]_vars
    /\ []SameAnswers

C3_Witness ==
    /\ pc["w1"] = "done" /\ pc["w2"] = "loaded"
    /\ arg["w1"] = arg["w2"] /\ arg["w1"] # NoIndex
    /\ sample["w1"].ok /\ ~ret["w1"].ok
    /\ Len(images) = 2

\* C4: whatever the chain and the random draws, a sample returned by get
\* carries the label that was looked up from the file name.
C4_LabelPreserved ==
    \A w \in Workers :
        (pc[w] = "done" /\ arg[w] # NoIndex /\ ret[w].ok) =>
            /\ sample[w].ok
            /\ ret[w].sample.annotation = sample[w].sample.annotation
            /\ ret[w].sample.annotation
                   = label_to_idx[LookupKey(FileName(w))]

C4_Witness ==
    \E w \in Workers :
        /\ pc[w] = "done" /\ arg[w] # NoIndex /\ ret[w].ok
        /\ ~transform.is_none /\ Len(transform.transforms) >= 2
        /\ ret[w].sample.image # sample[w].sample.image
        /\ ret[w].sample.annotation = 1

----------------------------------------------------------------------------
(* Properties of the transform operators, on the steps of the bench *)

\* the positions of hist that hold an applied operator of the given type
Steps(type) == {k \in 2..Len(hist) : hist[k].op.type = type}

\* the image the operator of step k was applied to, and its outcome
In(k) == hist[k - 1].out.sample.image
Out(k) == hist[k].out

\* same shape and same value at every position
PixelEqual(a, b) == a.shape = b.shape /\ a.data = b.data /\ a.adj = b.adj

\* b is the window of new_h rows and new_w columns of a at (top, left)
IsWindow(a, b, top, left, new_h, new_w) ==
    /\ b.shape = <<new_h, new_w>> \o Tail(Tail(a.shape))
    /\ \A ix \in Idx(b.shape) :
           b.data[ix] = a.data[[ix EXCEPT ![1] = top + ix[1],
                                          ![2] = left + ix[2]]]

\* C5: a RandomCrop whose size fits the image (newH <= H and newW <= W)
\* returns, for every draw, an image of exactly that size which is a
\* window of the input lying within [0,H) x [0,W).
C5_RandomCropFits ==
    \A k \in Steps("RandomCrop") :
        LET new_h == hist[k].op.output_size[1]
            new_w == hist[k].op.output_size[2]
            h == In(k).shape[1]
            w == In(k).shape[2]
        IN (new_h <= h /\ new_w <= w) =>
               /\ Out(k).ok
               /\ \E top \in 0..(h - new_h) : \E left \in 0..(w - new_w) :
                      IsWindow(In(k), Out(k).sample.image, top, left,
                               new_h, new_w)

\* C6: a RandomCrop or CenterCrop whose size exceeds the image
\* (newH > H or newW > W) raises; it returns no image.
C6_OversizeCropRaises ==
    \A k \in Steps("RandomCrop") \cup Steps("CenterCrop") :
        (\/ hist[k].op.output_size[1] > In(k).shape[1]
         \/ hist[k].op.output_size[2] > In(k).shape[2]) => ~Out(k).ok

\* the Rescale steps with a scalar target on an ndarray taller than wide
TallRescales ==
    {k \in Steps("Rescale") :
        /\ isinstance_int(hist[k].op.output_size)
        /\ In(k).kind = "ndarray"
        /\ In(k).shape[1] > In(k).shape[2]}

\* the integer nearest to x / y, and the largest integer not above x / y
Nearest(x, y) ==
    CHOOSE q \in 0..x : 2 * q * y <= 2 * x + y /\ 2 * x + y < 2 * (q + 1) * y
Floor(x, y) == CHOOSE q \in 0..x : q * y <= x /\ x < (q + 1) * y

\* C7 as stated: Rescale with scalar S on an image of shape (H,W), H > W,
\* gives shape (round(S*H/W), S).
C7_RescaleRounds ==
    \A k \in TallRescales :
        LET S == hist[k].op.output_size.int IN
        /\ Out(k).ok
        /\ Out(k).sample.image.shape[1]
               = Nearest(S * In(k).shape[1], In(k).shape[2])
        /\ Out(k).sample.image.shape[2] = S

\* C7 amended: Rescale with scalar S on an image of shape (H,W), H > W,
\* gives shape (floor(S*H/W), S): the longer edge is truncated, not
\* rounded to nearest.
C7_RescaleTruncates ==
    \A k \in TallRescales :
        LET S == hist[k].op.output_size.int IN
        /\ Out(k).ok
        /\ Out(k).sample.image.shape[1]
               = Floor(S * In(k).shape[1], In(k).shape[2])
        /\ Out(k).sample.image.shape[2] = S

C7_Witness ==
    \E k \in TallRescales :
        /\ Out(k).ok
        /\ (hist[k].op.output_size.int * In(k).shape[1]) % In(k).shape[2] # 0
        /\ Out(k).sample.image.shape[1] > Out(k).sample.image.shape[2]

\* a three-channel colour image: H x W x 3 ndarray or 3 x H x W tensor
IsColour(a) ==
    /\ Len(a.shape) = 3
    /\ IF a.kind = "tensor" THEN a.shape[1] = 3
       ELSE a.shape[3] = 3 /\ a.dtype = "uint8"

\* C9: ColorJitter with all four coefficients 0 returns an image that is
\* pixel-equal to its input.
C9_ZeroJitterIdentity ==
    \A k \in Steps("ColorJitter") :
        (/\ hist[k].op.brightness = 0 /\ hist[k].op.contrast = 0
         /\ hist[k].op.saturation = 0 /\ hist[k].op.hue = 0
         /\ IsColour(In(k))) =>
            Out(k).ok /\ PixelEqual(In(k), Out(k).sample.image)

\* b is a mirrored left to right
Mirrored(a, b) ==
    /\ b.shape = a.shape
    /\ \A ix \in Idx(a.shape) :
           b.data[ix] = a.data[[ix EXCEPT ![2] = a.shape[2] - 1 - ix[2]]]

\* C10: RandomHorizontalFlip with p = 1 mirrors on every draw, with p = 0
\* returns the image unchanged on every draw, and two mirrorings in a row
\* restore the pixel array.
C10_FlipExtremes ==
    \A k \in Steps("RandomHorizontalFlip") :
        /\ hist[k].op.p = Denom =>
               Out(k).ok /\ Mirrored(In(k), Out(k).sample.image)
        /\ hist[k].op.p = 0 => Out(k).ok /\ Out(k).sample.image = In(k)
        /\ (/\ hist[k].op.p = Denom
            /\ (k - 1) \in Steps("RandomHorizontalFlip")
            /\ hist[k - 1].op.p = Denom) =>
               Out(k).ok /\ PixelEqual(In(k - 1), Out(k).sample.image)

C10_Witness ==
    /\ Len(hist) >= 3
    /\ hist[2].op.type = "RandomHorizontalFlip" /\ hist[2].op.p = Denom
    /\ hist[3].op.type = "RandomHorizontalFlip" /\ hist[3].op.p = Denom
    /\ hist[1].out.sample.image.shape[2] >= 2
    /\ hist[2].out.sample.image.data # hist[1].out.sample.image.data
    /\ hist[3].out.sample.image.data = hist[1].out.sample.image.data

====
